---- MODULE Spec2Model ----
(***************************************************************************)
(* Model of backend/server.js: the POST /api/create handler, an async      *)
(* function that drives one headless browser through a signup form.        *)
(*                                                                         *)
(* Each call of the handler is a process whose position (pc) is the await  *)
(* it is suspended at.  One action resumes one await: the library call     *)
(* that was awaited either resolves or rejects (the \E ok \in BOOLEAN),     *)
(* and the action then runs all the synchronous code up to the next await, *)
(* including the catch and finally blocks when they are entered.           *)
(* Log timestamps (wall-clock strings) are not modelled.                   *)
(***************************************************************************)
EXTENDS Naturals, Sequences, FiniteSets

\* ------------------------------------------------------------------ bounds

\* Number of handler calls that may be in flight together.
NumCalls == 2

\* Longest proxy string drawn as input (characters).
MaxProxyLen == 5

\* ------------------------------------------------------------ value domains

Calls == 1..NumCalls

\* JavaScript null where a string is expected (no element, no exception).
Null == "null"

\* let browser = null: the value of `browser` before launch resolves.
NoBrowser == 0

\* Characters of a proxy string: ":" is the separator, "x" any other character.
Chars == {"x", ":"}

StringsUpTo(n) == UNION {[1..k -> Chars] : k \in 0..n}

\* The value of req.body.proxy after express.json(): missing, a JSON string,
\* or a JSON value that is truthy and has no split method (a number).
UndefinedProxy == [kind |-> "undefined", chars |-> <<>>]

NumberProxy == [kind |-> "number", chars |-> <<>>]

StringProxy(s) == [kind |-> "string", chars |-> s]

ProxyValues ==
  {UndefinedProxy, NumberProxy} \cup {StringProxy(s) : s \in StringsUpTo(MaxProxyLen)}

\* Request bodies of the single-call specification.
Bodies == {[email |-> "a@x", proxy |-> p] : p \in ProxyValues}

\* Request body of call r in the concurrent specification: call 1 comes
\* through an authenticated proxy ("x:x:x:x"), the others come without one.
ConcBody(r) ==
  [email |-> IF r = 1 THEN "a@x" ELSE "b@x",
   proxy |-> IF r = 1 THEN StringProxy(<<"x", ":", "x", ":", "x", ":", "x">>)
             ELSE UndefinedProxy]

\* URLs the page may be at after the submit click, as token sequences;
\* String.prototype.includes(marker) is membership of the marker token.
Urls ==
  { <<"www.spotify.com", "signup">>,
    <<"www.spotify.com", "download">>,
    <<"www.spotify.com", "account", "overview">>,
    <<"www.spotify.com", "account">> }

\* textContent of the error banner, when the page shows one.
BannerTexts == {"Email already in use"}

\* ---------------------------------------------------------- pure functions

\* if (proxy): JavaScript truthiness of the proxy value.
Truthy(p) == p.kind = "number" \/ (p.kind = "string" /\ p.chars # <<>>)

\* proxy.split(':') throws a TypeError when proxy is truthy and no string.
SplitThrows(p) == Truthy(p) /\ p.kind # "string"

RECURSIVE SplitAcc(_, _, _)
SplitAcc(s, cur, acc) ==
  IF s = <<>> THEN Append(acc, cur)
  ELSE IF Head(s) = ":" THEN SplitAcc(Tail(s), <<>>, Append(acc, cur))
  ELSE SplitAcc(Tail(s), Append(cur, Head(s)), acc)

\* String.prototype.split(':'): one more part than there are separators.
Split(s) == SplitAcc(s, <<>>, <<>>)

BaseArgs ==
  << <<"--no-sandbox">>, <<"--disable-setuid-sandbox">>,
     <<"--disable-dev-shm-usage">>, <<"--window-size=1280,800">> >>

\* `--proxy-server=${parts[0]}:${parts[1]}`
ProxyArg(parts) == <<"--proxy-server=">> \o parts[1] \o <<":">> \o parts[2]

\* parts.length >= 2
HasProxyArg(parts) == Len(parts) >= 2

\* The args puppeteer.launch is called with.
LaunchArgs(p) ==
  IF Truthy(p) /\ HasProxyArg(Split(p.chars))
    THEN Append(BaseArgs, ProxyArg(Split(p.chars)))
    ELSE BaseArgs

\* Faulty variant of NeedsAuth: parts.length >= 4.
NeedsAuthAtLeast(parts) == Len(parts) >= 4

\* parts.length === 4
NeedsAuth(parts) == Len(parts) = 4

\* { username: parts[2], password: parts[3] }
Credentials(parts) == [username |-> parts[3], password |-> parts[4]]

Includes(url, marker) == \E i \in 1..Len(url) : url[i] = marker

\* Faulty variant of IsSuccessUrl: the 'account' marker is not tested.
IsSuccessUrlNoAccount(url) == Includes(url, "download") \/ Includes(url, "overview")

\* currentUrl.includes('download') || ... 'overview' || ... 'account'
IsSuccessUrl(url) ==
  Includes(url, "download") \/ Includes(url, "overview") \/ Includes(url, "account")

CaptchaError == "Captcha Challenge. You need a residential proxy or manual intervention."

SuccessResponse(lg) ==
  [status |-> 200, success |-> TRUE, logs |-> lg, error |-> Null]

FailureResponse(lg, err) ==
  [status |-> 200, success |-> FALSE, logs |-> lg, error |-> err]

ErrorResponse(lg, msg) ==
  [status |-> 500, success |-> FALSE, logs |-> lg, error |-> msg]

\* The steps of the flow, in program order.
StepOrder == <<"launch", "goto", "typeEmail", "typePassword", "clickSubmit", "inspect">>

Steps == {StepOrder[i] : i \in 1..Len(StepOrder)}

\* The birth-date fields of the inner try block, in program order.
DobSteps == {"typeYear", "selectMonth", "typeDay"}

\* -------------------------------------------------------------------- state

VARIABLES
  pc,         \* pc[r]: the await call r is suspended at ("idle" before, "done" after)
  body,       \* body[r]: req.body of call r
  log,        \* log[l]: the log array l
  browser,    \* browser[r]: the handler's local variable `browser`
  pages,      \* pages[p]: the URL page p is at (<<>> before the submit click)
  launched,   \* launched[r]: the args of each puppeteer.launch call made by r
  authed,     \* authed[r]: the credentials of each page.authenticate call made by r
  responses,  \* responses[r]: the responses sent on res, in order
  closedBy,   \* closedBy[b]: the calls that invoked close() on browser b, in order
  caught,     \* caught[r]: the message of the error bound in the catch block
  pending,    \* pending[r]: the exception that is rethrown when finally completes
  escaped,    \* escaped[r]: the exceptions that left the handler (its rejection)
  thrown,     \* thrown[r]: history of every exception raised during call r
  invoked,    \* invoked[r][s]: how many times call r started step s (launch: launched)
  seen        \* seen[r]: the locals of the outcome inspection (currentUrl, ...)

vars ==
  <<pc, body, log, browser, pages, launched, authed, responses, closedBy,
    caught, pending, escaped, thrown, invoked, seen>>

\* Faulty variant of LogOf: one module-level array shared by all calls.
LogOfShared(r) == 1

\* const log = []: every call allocates its own array.
LogOf(r) == r

\* browser.newPage(): every call opens a page of its own.
PageOf(r) == r

\* puppeteer.launch resolves to a new browser object.
NewBrowser(r) == r

NoBody == [email |-> Null, proxy |-> UndefinedProxy]

\* The locals of the outcome inspection before it runs: currentUrl, the error
\* banner's text (Null: page.$ found no element) and whether frames.find
\* found a frame whose URL includes 'arkoselabs'.
NothingSeen == [currentUrl |-> <<>>, banner |-> Null, arkose |-> FALSE]

Init ==
  /\ pc = [r \in Calls |-> "idle"]
  /\ body = [r \in Calls |-> NoBody]
  /\ log = [l \in Calls |-> <<>>]
  /\ browser = [r \in Calls |-> NoBrowser]
  /\ pages = [p \in Calls |-> <<>>]
  /\ launched = [r \in Calls |-> <<>>]
  /\ authed = [r \in Calls |-> <<>>]
  /\ responses = [r \in Calls |-> <<>>]
  /\ closedBy = [b \in Calls |-> <<>>]
  /\ caught = [r \in Calls |-> Null]
  /\ pending = [r \in Calls |-> Null]
  /\ escaped = [r \in Calls |-> <<>>]
  /\ thrown = [r \in Calls |-> <<>>]
  /\ invoked = [r \in Calls |-> [s \in (Steps \ {"launch"}) \cup DobSteps |-> 0]]
  /\ seen = [r \in Calls |-> NothingSeen]

\* ------------------------------------------------------------ code blocks

\* addLog(msg, type): log.push({ message, type, ... }); `by` records the call
\* that pushed the entry.
AddLog(lg, r, msg, type) == Append(lg, [message |-> msg, type |-> type, by |-> r])

\* Faulty variant of CatchLog: the catch block logs nothing.
CatchLogMissing(lg, r, msg) == lg

\* addLog(`Critical Error: ${error.message}`, "error")
CatchLog(lg, r, msg) == AddLog(lg, r, <<"Critical Error: ", msg>>, "error")

Started(r, s) == [invoked EXCEPT ![r][s] = @ + 1]

\* Faulty variant of Finally: a finally block that closes nothing.
FinallyNoClose(r, pend) ==
  /\ pc' = [pc EXCEPT ![r] = "done"]
  /\ escaped' = [escaped EXCEPT ![r] = IF pend # Null THEN Append(@, pend) ELSE @]
  /\ UNCHANGED <<closedBy, pending>>

\* finally { if (browser) await browser.close(); } entered with the exception
\* `pend` to rethrow afterwards (Null: none).
Finally(r, pend) ==
  IF browser[r] # NoBrowser
    THEN /\ closedBy' = [closedBy EXCEPT ![browser[r]] = Append(@, r)]
         /\ pending' = [pending EXCEPT ![r] = pend]
         /\ pc' = [pc EXCEPT ![r] = "finallyClose"]
         /\ UNCHANGED escaped
    ELSE /\ pc' = [pc EXCEPT ![r] = "done"]
         /\ escaped' = [escaped EXCEPT ![r] = IF pend # Null THEN Append(@, pend) ELSE @]
         /\ UNCHANGED <<closedBy, pending>>

\* An exception with message msg is thrown inside the try block while the log
\* is lg: the catch block runs up to its await, or through the finally block.
Throw(r, lg, msg) ==
  /\ thrown' = [thrown EXCEPT ![r] = Append(@, msg)]
  /\ log' = [log EXCEPT ![LogOf(r)] = CatchLog(lg, r, msg)]
  /\ IF browser[r] # NoBrowser
       THEN /\ closedBy' = [closedBy EXCEPT ![browser[r]] = Append(@, r)]
            /\ caught' = [caught EXCEPT ![r] = msg]
            /\ pc' = [pc EXCEPT ![r] = "catchClose"]
            /\ UNCHANGED <<responses, pending, escaped>>
       ELSE /\ responses' =
                 [responses EXCEPT ![r] = Append(@, ErrorResponse(CatchLog(lg, r, msg), msg))]
            /\ Finally(r, Null)
            /\ UNCHANGED caught

\* The awaited call rejected: nothing but the catch block runs.
Fails(r, msg) ==
  /\ Throw(r, log[LogOf(r)], msg)
  /\ UNCHANGED <<body, browser, pages, launched, authed, invoked, seen>>

\* The awaited call resolved: the code runs on to the await `next`, having
\* pushed the log to lg and started the steps counted in inv.
Resumes(r, lg, next, inv) ==
  /\ pc' = [pc EXCEPT ![r] = next]
  /\ log' = [log EXCEPT ![LogOf(r)] = lg]
  /\ invoked' = inv
  /\ UNCHANGED <<body, browser, pages, launched, authed, responses, closedBy,
                 caught, pending, escaped, thrown, seen>>

\* ------------------------------------------------------------------ actions

\* The handler is called with body b: the destructuring, `const log = []`,
\* `let browser = null`, the first addLog, the proxy parsing and the call of
\* puppeteer.launch, up to its await.
Receive(r, b) ==
  /\ pc[r] = "idle"
  /\ body' = [body EXCEPT ![r] = b]
  /\ LET lg == AddLog(<<>>, r, <<"Initiating Browser for: ", b.email>>, "info")
     IN IF SplitThrows(b.proxy)
          THEN /\ Throw(r, lg, "proxy.split is not a function")
               /\ UNCHANGED <<browser, pages, launched, authed, invoked, seen>>
          ELSE /\ launched' = [launched EXCEPT ![r] = Append(@, LaunchArgs(b.proxy))]
               /\ pc' = [pc EXCEPT ![r] = "launch"]
               /\ log' = [log EXCEPT ![LogOf(r)] = lg]
               /\ UNCHANGED <<browser, pages, authed, responses, closedBy, caught,
                              pending, escaped, thrown, invoked, seen>>

\* Faulty variant of LaunchFailed: a rejected launch is tried again.
LaunchRetried(r) ==
  /\ launched' = [launched EXCEPT ![r] = Append(@, LaunchArgs(body[r].proxy))]
  /\ UNCHANGED <<pc, body, log, browser, pages, authed, responses, closedBy,
                 caught, pending, escaped, thrown, invoked, seen>>

\* puppeteer.launch rejected.
LaunchFailed(r) == Fails(r, "launch failed")

\* browser = await puppeteer.launch(...); then browser.newPage() is called.
Launch(r) ==
  /\ pc[r] = "launch"
  /\ \E ok \in BOOLEAN :
       IF ok
         THEN /\ browser' = [browser EXCEPT ![r] = NewBrowser(r)]
              /\ pc' = [pc EXCEPT ![r] = "newPage"]
              /\ UNCHANGED <<body, log, pages, launched, authed, responses, closedBy,
                             caught, pending, escaped, thrown, invoked, seen>>
         ELSE LaunchFailed(r)

\* addLog("Navigating to Spotify Signup...") and the call of page.goto.
StartGoto(r) ==
  Resumes(r, AddLog(log[LogOf(r)], r, <<"Navigating to Spotify Signup...">>, "network"),
          "goto", Started(r, "goto"))

\* const page = await browser.newPage(); then the proxy authentication, if
\* the proxy has four parts, else on to page.goto.
NewPage(r) ==
  /\ pc[r] = "newPage"
  /\ \E ok \in BOOLEAN :
       IF ~ok THEN Fails(r, "newPage failed")
       ELSE IF Truthy(body[r].proxy) /\ NeedsAuth(Split(body[r].proxy.chars))
         THEN /\ authed' = [authed EXCEPT ![r] =
                              Append(@, Credentials(Split(body[r].proxy.chars)))]
              /\ pc' = [pc EXCEPT ![r] = "authenticate"]
              /\ UNCHANGED <<body, log, browser, pages, launched, responses, closedBy,
                             caught, pending, escaped, thrown, invoked, seen>>
         ELSE StartGoto(r)

\* await page.authenticate(...)
Authenticate(r) ==
  /\ pc[r] = "authenticate"
  /\ \E ok \in BOOLEAN :
       IF ok THEN StartGoto(r) ELSE Fails(r, "authenticate failed")

\* Faulty variant of GotoFailed: a rejected navigation is tried again.
GotoRetried(r) ==
  /\ invoked' = Started(r, "goto")
  /\ UNCHANGED <<pc, body, log, browser, pages, launched, authed, responses,
                 closedBy, caught, pending, escaped, thrown, seen>>

\* page.goto rejected (navigation timeout, network error).
GotoFailed(r) == Fails(r, "goto failed")

\* await page.goto(...); addLog("Waiting for form..."); page.waitForSelector.
Goto(r) ==
  /\ pc[r] = "goto"
  /\ \E ok \in BOOLEAN :
       IF ok
         THEN Resumes(r, AddLog(log[LogOf(r)], r, <<"Waiting for form...">>, "info"),
                      "waitEmail", invoked)
         ELSE GotoFailed(r)

\* await page.waitForSelector(email); page.type(email) is called.
WaitEmail(r) ==
  /\ pc[r] = "waitEmail"
  /\ \E ok \in BOOLEAN :
       IF ok THEN Resumes(r, log[LogOf(r)], "typeEmail", Started(r, "typeEmail"))
       ELSE Fails(r, "waitForSelector(email) failed")

\* await page.type(email); addLog("Entered Email"); sleep(500).
TypeEmail(r) ==
  /\ pc[r] = "typeEmail"
  /\ \E ok \in BOOLEAN :
       IF ok
         THEN Resumes(r, AddLog(log[LogOf(r)], r, <<"Entered Email">>, "info"),
                      "sleep500", invoked)
         ELSE Fails(r, "type(email) failed")

\* await sleep(500); page.$(next button) is called.
Sleep500(r) ==
  /\ pc[r] = "sleep500"
  /\ Resumes(r, log[LogOf(r)], "queryNext", invoked)

\* const nextBtn = await page.$(...); if (nextBtn) nextBtn.click(), else on to
\* the password field.
QueryNext(r) ==
  /\ pc[r] = "queryNext"
  /\ \E res \in {"rejected", "null", "element"} :
       IF res = "rejected" THEN Fails(r, "$(next) failed")
       ELSE Resumes(r, log[LogOf(r)],
                    IF res = "element" THEN "clickNext" ELSE "waitPassword", invoked)

\* await nextBtn.click(); sleep(1000).
ClickNext(r) ==
  /\ pc[r] = "clickNext"
  /\ \E ok \in BOOLEAN :
       IF ok THEN Resumes(r, log[LogOf(r)], "sleep1000", invoked)
       ELSE Fails(r, "click(next) failed")

\* await sleep(1000); page.waitForSelector(password) is called.
Sleep1000(r) ==
  /\ pc[r] = "sleep1000"
  /\ Resumes(r, log[LogOf(r)], "waitPassword", invoked)

\* await page.waitForSelector(password); page.type(password) is called.
WaitPassword(r) ==
  /\ pc[r] = "waitPassword"
  /\ \E ok \in BOOLEAN :
       IF ok THEN Resumes(r, log[LogOf(r)], "typePassword", Started(r, "typePassword"))
       ELSE Fails(r, "waitForSelector(password) failed")

\* await page.type(password); addLog("Entered Password");
\* addLog("Filling Profile details..."); page.type(year) is called.
TypePassword(r) ==
  /\ pc[r] = "typePassword"
  /\ \E ok \in BOOLEAN :
       IF ok
         THEN Resumes(r,
                AddLog(AddLog(log[LogOf(r)], r, <<"Entered Password">>, "info"),
                       r, <<"Filling Profile details...">>, "info"),
                "typeYear", Started(r, "typeYear"))
         ELSE Fails(r, "type(password) failed")

\* Faulty variant of DobFailed: no inner try, the failure reaches the outer catch.
DobFailedAborts(r, msg) == Fails(r, msg)

\* catch (e) { addLog("Profile inputs varying...", "warning"); } of the inner
\* try, then addLog("Clicking Submit...") and the call of page.click(submit).
DobFailed(r, msg) ==
  /\ thrown' = [thrown EXCEPT ![r] = Append(@, msg)]
  /\ log' = [log EXCEPT ![LogOf(r)] =
       AddLog(AddLog(@, r, <<"Profile inputs varying, attempting fallbacks...">>, "warning"),
              r, <<"Clicking Submit...">>, "network")]
  /\ invoked' = Started(r, "clickSubmit")
  /\ pc' = [pc EXCEPT ![r] = "clickSubmit"]
  /\ UNCHANGED <<body, browser, pages, launched, authed, responses, closedBy,
                 caught, pending, escaped, seen>>

\* await page.type('input#year'); page.select(month) is called.
TypeYear(r) ==
  /\ pc[r] = "typeYear"
  /\ \E ok \in BOOLEAN :
       IF ok THEN Resumes(r, log[LogOf(r)], "selectMonth", Started(r, "selectMonth"))
       ELSE DobFailed(r, "type(year) failed")

\* await page.select('select#month'); page.type(day) is called.
SelectMonth(r) ==
  /\ pc[r] = "selectMonth"
  /\ \E ok \in BOOLEAN :
       IF ok THEN Resumes(r, log[LogOf(r)], "typeDay", Started(r, "typeDay"))
       ELSE DobFailed(r, "select(month) failed")

\* await page.type('input#day'); addLog("Clicking Submit..."); page.click.
TypeDay(r) ==
  /\ pc[r] = "typeDay"
  /\ \E ok \in BOOLEAN :
       IF ok
         THEN Resumes(r, AddLog(log[LogOf(r)], r, <<"Clicking Submit...">>, "network"),
                      "clickSubmit", Started(r, "clickSubmit"))
         ELSE DobFailed(r, "type(day) failed")

\* await page.click(submit): the site takes the page to some URL;
\* addLog("Verifying submission..."); sleep(3000).
ClickSubmit(r) ==
  /\ pc[r] = "clickSubmit"
  /\ \E ok \in BOOLEAN :
       IF ~ok THEN Fails(r, "click(submit) failed")
       ELSE \E url \in Urls :
              /\ pages' = [pages EXCEPT ![PageOf(r)] = url]
              /\ log' = [log EXCEPT ![LogOf(r)] =
                           AddLog(@, r, <<"Verifying submission...">>, "info")]
              /\ pc' = [pc EXCEPT ![r] = "sleep3000"]
              /\ UNCHANGED <<body, browser, launched, authed, responses, closedBy,
                             caught, pending, escaped, thrown, invoked, seen>>

\* await sleep(3000); const currentUrl = page.url(); on a success URL
\* addLog(success) and browser.close() is called, else page.$(error banner).
Sleep3000(r) ==
  /\ pc[r] = "sleep3000"
  /\ seen' = [seen EXCEPT ![r].currentUrl = pages[PageOf(r)]]
  /\ invoked' = Started(r, "inspect")
  /\ IF IsSuccessUrl(pages[PageOf(r)])
       THEN /\ log' = [log EXCEPT ![LogOf(r)] =
                         AddLog(@, r, <<"Account Successfully Created!">>, "success")]
            /\ closedBy' = [closedBy EXCEPT ![browser[r]] = Append(@, r)]
            /\ pc' = [pc EXCEPT ![r] = "successClose"]
       ELSE /\ pc' = [pc EXCEPT ![r] = "queryError"]
            /\ UNCHANGED <<log, closedBy>>
  /\ UNCHANGED <<body, browser, pages, launched, authed, responses, caught,
                 pending, escaped, thrown>>

\* await browser.close() of the success branch; res.json({ success: true }),
\* then the finally block.
SuccessClose(r) ==
  /\ pc[r] = "successClose"
  /\ \E ok \in BOOLEAN :
       IF ok
         THEN /\ responses' = [responses EXCEPT ![r] =
                                 Append(@, SuccessResponse(log[LogOf(r)]))]
              /\ Finally(r, Null)
              /\ UNCHANGED <<body, log, browser, pages, launched, authed, caught,
                             thrown, invoked, seen>>
         ELSE Fails(r, "close failed")

\* errorEl ? <its textContent> : "Unknown Error"
ErrorText(banner) == IF banner # Null THEN banner ELSE "Unknown Error"

\* page.frames().find(arkoselabs), the two failure branches with their addLog
\* and res.json({ success: false }), then the finally block.
Classify(r, banner) ==
  \E arkose \in BOOLEAN :
    LET lg == IF arkose
                THEN AddLog(log[LogOf(r)], r,
                       <<"FAILED: Captcha Challenge Triggered. Automation detected.">>, "error")
                ELSE AddLog(log[LogOf(r)], r, <<"Failed: ", ErrorText(banner)>>, "error")
        err == IF arkose THEN CaptchaError ELSE ErrorText(banner)
    IN /\ seen' = [seen EXCEPT ![r].banner = banner, ![r].arkose = arkose]
       /\ log' = [log EXCEPT ![LogOf(r)] = lg]
       /\ responses' = [responses EXCEPT ![r] = Append(@, FailureResponse(lg, err))]
       /\ Finally(r, Null)
       /\ UNCHANGED <<body, browser, pages, launched, authed, caught, thrown, invoked>>

\* const errorEl = await page.$(error banner); with an element,
\* page.evaluate(textContent) is called, else the outcome is classified.
QueryError(r) ==
  /\ pc[r] = "queryError"
  /\ \E res \in {"rejected", "null", "element"} :
       IF res = "rejected" THEN Fails(r, "$(error) failed")
       ELSE IF res = "element" THEN Resumes(r, log[LogOf(r)], "evalError", invoked)
       ELSE Classify(r, Null)

\* const errorText = await page.evaluate(el => el.textContent, errorEl).
EvalError(r) ==
  /\ pc[r] = "evalError"
  /\ \E ok \in BOOLEAN :
       IF ok THEN \E text \in BannerTexts : Classify(r, text)
       ELSE Fails(r, "evaluate failed")

\* await browser.close() of the catch block; res.status(500).json(...), then
\* the finally block.  When close rejects, the finally block runs with that
\* exception pending and no response is sent.
CatchClose(r) ==
  /\ pc[r] = "catchClose"
  /\ \E ok \in BOOLEAN :
       /\ IF ok
            THEN /\ responses' = [responses EXCEPT ![r] =
                                    Append(@, ErrorResponse(log[LogOf(r)], caught[r]))]
                 /\ Finally(r, Null)
                 /\ UNCHANGED thrown
            ELSE /\ thrown' = [thrown EXCEPT ![r] = Append(@, "close failed")]
                 /\ Finally(r, "close failed")
                 /\ UNCHANGED responses
       /\ UNCHANGED <<body, log, browser, pages, launched, authed, caught, invoked, seen>>

\* await browser.close() of the finally block; the handler ends, rejecting
\* with the pending exception or with the one close raised here.
FinallyClose(r) ==
  /\ pc[r] = "finallyClose"
  /\ pc' = [pc EXCEPT ![r] = "done"]
  /\ \E ok \in BOOLEAN :
       IF ok
         THEN /\ escaped' = [escaped EXCEPT ![r] =
                               IF pending[r] # Null THEN Append(@, pending[r]) ELSE @]
              /\ UNCHANGED thrown
         ELSE /\ escaped' = [escaped EXCEPT ![r] = Append(@, "close failed")]
              /\ thrown' = [thrown EXCEPT ![r] = Append(@, "close failed")]
  /\ UNCHANGED <<body, log, browser, pages, launched, authed, responses, closedBy,
                 caught, pending, invoked, seen>>

\* One step of call r after it was received.
Step(r) ==
  \/ Launch(r) \/ NewPage(r) \/ Authenticate(r) \/ Goto(r)
  \/ WaitEmail(r) \/ TypeEmail(r) \/ Sleep500(r) \/ QueryNext(r) \/ ClickNext(r)
  \/ Sleep1000(r) \/ WaitPassword(r) \/ TypePassword(r)
  \/ TypeYear(r) \/ SelectMonth(r) \/ TypeDay(r)
  \/ ClickSubmit(r) \/ Sleep3000(r) \/ SuccessClose(r)
  \/ QueryError(r) \/ EvalError(r) \/ CatchClose(r) \/ FinallyClose(r)

\* A single call with any request body.
Next == (\E b \in Bodies : Receive(1, b)) \/ Step(1)

Spec == Init /\ [][Next]_vars

\* NumCalls calls in flight, interleaved at their awaits.
NextConc == \E r \in Calls : Receive(r, ConcBody(r)) \/ Step(r)

SpecConc == Init /\ [][NextConc]_vars

\* ------------------------------------------------------------- properties

Finished(r) == pc[r] = "done"

\* How many times call r started step s.
Count(r, s) == IF s = "launch" THEN Len(launched[r]) ELSE invoked[r][s]

\* C1: when a call has finished, on whatever path, the browser it launched
\* has had close() invoked on it by that call.
C1_LaunchedBrowserClosed ==
  \A r \in Calls :
    (Finished(r) /\ browser[r] # NoBrowser)
      => \E i \in 1..Len(closedBy[browser[r]]) : closedBy[browser[r]][i] = r

\* C1 witness: a call finished on the classified-failure path, where only the
\* finally block closes the browser.
C1_Witness ==
  \E r \in Calls :
    /\ Finished(r) /\ browser[r] # NoBrowser
    /\ Len(responses[r]) = 1
    /\ responses[r][1].status = 200 /\ ~responses[r][1].success
    /\ closedBy[browser[r]] = <<r>>

\* C2: no exception leaves the handler, and every exception raised during a
\* finished call is reported by a 500 response carrying its message.
C2_EveryFailureReported ==
  \A r \in Calls :
    /\ escaped[r] = <<>>
    /\ Finished(r) =>
         \A i \in 1..Len(thrown[r]) :
           \E j \in 1..Len(responses[r]) :
             /\ responses[r][j].status = 500
             /\ ~responses[r][j].success
             /\ responses[r][j].error = thrown[r][i]

\* C3: a call never sends two responses, a finished call has sent exactly
\* one, and a response carries an error exactly when success is false.
C3_ExactlyOneResponse ==
  \A r \in Calls :
    /\ Len(responses[r]) <= 1
    /\ Finished(r) => Len(responses[r]) = 1
    /\ \A j \in 1..Len(responses[r]) :
         (responses[r][j].error # Null) <=> ~responses[r][j].success

\* C4 as claimed: every received call has invoked puppeteer.launch exactly once.
C4_LaunchExactlyOnce ==
  \A r \in Calls : pc[r] # "idle" => Len(launched[r]) = 1

\* C4 as amended: puppeteer.launch is invoked at most once per call, and
\* exactly once unless the proxy field is a truthy value that is no string
\* (proxy.split throws before the launch).
C4_LaunchOnceUnlessProxyNotString ==
  \A r \in Calls :
    /\ Len(launched[r]) <= 1
    /\ pc[r] # "idle" => (Len(launched[r]) = 1 <=> body[r].proxy.kind # "number")

\* C4 witness: a finished call whose proxy was a number, answered without any
\* launch.
C4_Witness ==
  \E r \in Calls :
    /\ Finished(r) /\ body[r].proxy.kind = "number"
    /\ launched[r] = <<>>
    /\ Len(responses[r]) = 1 /\ responses[r][1].status = 500

\* C5: with calls interleaved at their awaits, the logs of every response of a
\* call hold only entries that call pushed, a call that has read the page URL
\* holds the URL of its own page, and close() is invoked on a browser only by
\* the one call whose launch returned it.
C5_CallsAreIsolated ==
  \A r \in Calls :
    /\ \A j \in 1..Len(responses[r]) :
         \A k \in 1..Len(responses[r][j].logs) : responses[r][j].logs[k].by = r
    /\ Count(r, "inspect") >= 1 => seen[r].currentUrl = pages[r]
    /\ \A b \in Calls : \A i \in 1..Len(closedBy[b]) :
         closedBy[b][i] = r => (browser[r] = b /\ \A q \in Calls : browser[q] = b => q = r)

\* C5 witness: two calls in flight together, both already answered from
\* different URLs and both awaiting the close() of their own browser.
C5_Witness ==
  \E r, q \in Calls :
    /\ r # q
    /\ pc[r] = "finallyClose" /\ pc[q] = "finallyClose"
    /\ Len(responses[r]) = 1 /\ Len(responses[q]) = 1
    /\ responses[r][1].success /\ ~responses[q][1].success
    /\ responses[q][1].status = 200

HasMarker(url) ==
  \E i \in 1..Len(url) : url[i] \in {"download", "overview", "account"}

\* C6 as claimed: once the outcome has been inspected, the response has
\* success = true exactly when the URL holds a success marker; otherwise its
\* error is the CAPTCHA message when an arkoselabs frame was found, else the
\* banner's text, else "Unknown Error".
C6_OutcomeFromUrlAndDom ==
  \A r \in Calls :
    \A j \in 1..Len(responses[r]) :
      Count(r, "inspect") >= 1 =>
        /\ responses[r][j].success <=> HasMarker(seen[r].currentUrl)
        /\ ~responses[r][j].success =>
             responses[r][j].error =
               IF seen[r].arkose THEN CaptchaError
               ELSE IF seen[r].banner # Null THEN seen[r].banner
               ELSE "Unknown Error"

\* C6 as amended: the rule of C6 holds of every response the classification
\* branches send (status 200), success = true is only ever sent for a URL with
\* a success marker, and the only other response is the 500 response of the
\* catch block, whose error is the message of an exception raised in the call.
C6_OutcomeFromUrlAndDomUnlessThrown ==
  \A r \in Calls :
    \A j \in 1..Len(responses[r]) :
      /\ responses[r][j].status \in {200, 500}
      /\ responses[r][j].success => responses[r][j].status = 200
      /\ responses[r][j].status = 200 =>
           /\ Count(r, "inspect") = 1
           /\ responses[r][j].success <=> HasMarker(seen[r].currentUrl)
           /\ ~responses[r][j].success =>
                responses[r][j].error =
                  IF seen[r].arkose THEN CaptchaError
                  ELSE IF seen[r].banner # Null THEN seen[r].banner
                  ELSE "Unknown Error"
      /\ responses[r][j].status = 500 =>
           /\ ~responses[r][j].success
           /\ \E i \in 1..Len(thrown[r]) : responses[r][j].error = thrown[r][i]

\* C6 witness: a classified failure where both a banner and an arkoselabs
\* frame were found, answered with the CAPTCHA message.
C6_Witness ==
  \E r \in Calls :
    /\ Len(responses[r]) = 1
    /\ responses[r][1].status = 200 /\ ~responses[r][1].success
    /\ seen[r].arkose /\ seen[r].banner # Null
    /\ responses[r][1].error = CaptchaError

\* The proxy string of call r, "" when the proxy is no string.
ProxyChars(r) == body[r].proxy.chars

Colons(s) == Cardinality({i \in 1..Len(s) : s[i] = ":"})

\* The k-th ':'-separated field of s, read off the positions of its separators.
Field(s, k) ==
  LET at == {i \in 1..Len(s) :
               s[i] # ":" /\ Cardinality({j \in 1..i : s[j] = ":"}) = k - 1}
      first == CHOOSE i \in at : \A j \in at : i <= j
  IN IF at = {} THEN <<>> ELSE [n \in 1..Cardinality(at) |-> s[first + n - 1]]

HasProxyServerArg(args) == Len(args) = Len(BaseArgs) + 1

\* C7 as claimed: the launch carries a --proxy-server argument exactly for the
\* forms host:port and host:port:user:password, built from the first two
\* fields; page.authenticate is called, with the third and fourth fields,
\* exactly for the second form.
C7_ExactlyTwoProxyForms ==
  \A r \in Calls :
    /\ \A i \in 1..Len(launched[r]) :
         /\ HasProxyServerArg(launched[r][i]) <=> Colons(ProxyChars(r)) \in {1, 3}
         /\ HasProxyServerArg(launched[r][i]) =>
              launched[r][i][Len(BaseArgs) + 1] =
                <<"--proxy-server=">> \o Field(ProxyChars(r), 1) \o <<":">>
                  \o Field(ProxyChars(r), 2)
    /\ Len(authed[r]) <= 1
    /\ authed[r] # <<>> => Colons(ProxyChars(r)) = 3
    /\ (Colons(ProxyChars(r)) = 3 /\ Count(r, "goto") >= 1) => Len(authed[r]) = 1

\* C7 as amended: the --proxy-server argument, built from the first two
\* fields, is passed whenever the proxy string has at least two fields (so
\* also for three, five or more); page.authenticate is called once, with
\* the third and fourth fields, exactly when it has four; without a proxy the
\* launch gets the four fixed arguments and nothing is authenticated.
C7_ProxyArgFromTwoFieldsAuthForFour ==
  \A r \in Calls :
    /\ \A i \in 1..Len(launched[r]) :
         /\ HasProxyServerArg(launched[r][i]) <=> Colons(ProxyChars(r)) >= 1
         /\ HasProxyServerArg(launched[r][i]) =>
              launched[r][i][Len(BaseArgs) + 1] =
                <<"--proxy-server=">> \o Field(ProxyChars(r), 1) \o <<":">>
                  \o Field(ProxyChars(r), 2)
         /\ ~HasProxyServerArg(launched[r][i]) => launched[r][i] = BaseArgs
    /\ Len(authed[r]) <= 1
    /\ \A i \in 1..Len(authed[r]) :
         /\ Colons(ProxyChars(r)) = 3
         /\ authed[r][i].username = Field(ProxyChars(r), 3)
         /\ authed[r][i].password = Field(ProxyChars(r), 4)
    /\ (Colons(ProxyChars(r)) = 3 /\ Count(r, "goto") >= 1) => Len(authed[r]) = 1
    /\ ProxyChars(r) = <<>> => authed[r] = <<>>

\* C7 witness: a call with a three-field proxy ("x:x:") that was launched
\* with a --proxy-server argument and went on to page.goto unauthenticated.
C7_Witness ==
  \E r \in Calls :
    /\ ProxyChars(r) = <<"x", ":", "x", ":">>
    /\ Len(launched[r]) = 1 /\ HasProxyServerArg(launched[r][1])
    /\ Count(r, "goto") = 1 /\ authed[r] = <<>>

\* C7 second witness, the credentials form: "x::x:" authenticates user "x"
\* with an empty password.
C7_WitnessCredentials ==
  \E r \in Calls :
    /\ ProxyChars(r) = <<"x", ":", ":", "x", ":">>
    /\ authed[r] = << [username |-> <<"x">>, password |-> <<>>] >>

\* C8: every step of the flow is started at most once per call, and in
\* program order: a step has started only if every earlier one has, so after
\* a failure neither the failed step nor an earlier one starts again.
C8_NothingRetried ==
  \A r \in Calls :
    /\ \A s \in Steps : Count(r, s) <= 1
    /\ \A i, j \in 1..Len(StepOrder) :
         (i < j /\ Count(r, StepOrder[j]) >= 1) => Count(r, StepOrder[i]) = 1
    /\ (caught[r] # Null \/ \E j \in 1..Len(responses[r]) : responses[r][j].status = 500)
         => ~(pc[r] \in {"launch", "goto", "typeEmail", "typePassword",
                         "clickSubmit", "sleep3000"})

\* C8 witness: page.goto failed and the call finished without starting it,
\* or any later step, again.
C8_Witness ==
  \E r \in Calls :
    /\ Finished(r) /\ thrown[r] = <<"goto failed">>
    /\ Count(r, "launch") = 1 /\ Count(r, "goto") = 1 /\ Count(r, "typeEmail") = 0

DobMessages == {"type(year) failed", "select(month) failed", "type(day) failed"}

Warnings(lg) == {k \in 1..Len(lg) : lg[k].type = "warning"}

\* C9: a failure of a birth-date field is caught locally: one 'warning' entry
\* is logged and directly followed by the submit click, the fields after the
\* failed one are never started, and as long as it is the only failure of the
\* call the catch block is not entered, no 500 response is sent, and a
\* finished call has been answered by the classification.
C9_DobFailureTolerated ==
  \A r \in Calls :
    (thrown[r] # <<>> /\ thrown[r][1] \in DobMessages) =>
      /\ Count(r, "clickSubmit") = 1
      /\ Cardinality(Warnings(log[LogOf(r)])) = 1
      /\ \A k \in Warnings(log[LogOf(r)]) :
           /\ k < Len(log[LogOf(r)])
           /\ log[LogOf(r)][k + 1].message = <<"Clicking Submit...">>
      /\ thrown[r][1] = "type(year) failed" => Count(r, "selectMonth") = 0
      /\ thrown[r][1] # "type(day) failed" => Count(r, "typeDay") = 0
      /\ Len(thrown[r]) = 1 =>
           /\ caught[r] = Null /\ pc[r] # "catchClose"
           /\ \A j \in 1..Len(responses[r]) : responses[r][j].status = 200
           /\ Finished(r) => Len(responses[r]) = 1

\* C9 witness: a call whose only failure was the month field finished with
\* the success response.
C9_Witness ==
  \E r \in Calls :
    /\ Finished(r) /\ thrown[r] = <<"select(month) failed">>
    /\ Len(responses[r]) = 1 /\ responses[r][1].success

IsPrefix(s, t) == Len(s) <= Len(t) /\ SubSeq(t, 1, Len(s)) = s

LogMatchesOutcome ==
  \A r \in Calls :
    \A j \in 1..Len(responses[r]) :
      LET lg == responses[r][j].logs
      IN /\ lg = log[LogOf(r)]
         /\ lg # <<>>
         /\ lg[1].message = <<"Initiating Browser for: ", body[r].email>>
         /\ lg[Len(lg)].type = "success" <=> responses[r][j].success
         /\ lg[Len(lg)].type = "error" <=> ~responses[r][j].success

LogAppendOnly == \A l \in Calls : IsPrefix(log[l], log'[l])

\* C10: the log only ever grows at its end, and the logs of every response
\* are the whole log (nothing is pushed after the response), start with the
\* 'Initiating Browser' entry and end with an entry of type 'success' exactly
\* when success is true and of type 'error' exactly when it is false.
C10_LogAppendOnlyAndMatchesOutcome == []LogMatchesOutcome /\ [][LogAppendOnly]_vars

\* C10 witness: close() failed on the success branch, so the log holds the
\* 'success' entry and, after it, the 'error' entry of the 500 response.
C10_Witness ==
  \E r \in Calls :
    /\ Len(responses[r]) = 1 /\ responses[r][1].status = 500
    /\ \E k \in 1..Len(responses[r][1].logs) : responses[r][1].logs[k].type = "success"

====
